---- MODULE Spec2Model ----
(***************************************************************************)
(* Model of the MDict Audio API (src/main.py): startup (lifespan), the key *)
(* guard (get_api_key), the audio endpoint (get_word_audio) with the       *)
(* extractor (extract_audio_and_ext), and the access-log redaction filter  *)
(* (RedactKeyFilter).                                                      *)
(*                                                                         *)
(* Text is modelled character by character: a Python str is a sequence of  *)
(* one-character strings.  Fixed pieces of log text are single elements    *)
(* (they never contain a credential character), and U+017F (LATIN SMALL    *)
(* LETTER LONG S) is the element LongS.  An Optional[...] value is a       *)
(* record [none, s]: None is [none |-> TRUE, s |-> <<>>].                  *)
(***************************************************************************)
EXTENDS Integers, Sequences, FiniteSets, TLC

\* ------------------------------------------------------------------------
\* Bounds of the model
\* ------------------------------------------------------------------------

\* longest path (between "sound://" and ".ext") of a generated reference
MaxPathLen == 2

\* ------------------------------------------------------------------------
\* Python values
\* ------------------------------------------------------------------------

None == [none |-> TRUE, s |-> <<>>]

Some(s) == [none |-> FALSE, s |-> s]

\* truth value of an Optional[str] / Optional[bytes]: None and the empty
\* value are both falsy
Truthy(o) == ~o.none /\ o.s # <<>>

LongS == "U+017F"

UpperChars == <<"A", "D", "E", "F", "G", "H", "M", "N", "O", "P", "R", "S", "U", "V", "W", "X">>

LowerChars == <<"a", "d", "e", "f", "g", "h", "m", "n", "o", "p", "r", "s", "u", "v", "w", "x">>

\* str.lower() on one character; U+017F is a lowercase letter and is kept
Lower(c) ==
    IF \E i \in 1..Len(UpperChars) : UpperChars[i] = c
    THEN LowerChars[CHOOSE i \in 1..Len(UpperChars) : UpperChars[i] = c]
    ELSE c

LowerStr(s) == [k \in 1..Len(s) |-> Lower(s[k])]

\* re.IGNORECASE on a str pattern: a pattern letter matches its lower and
\* upper case forms and the other characters with the same case folding;
\* for "s" that includes U+017F
ReMatchI(p, c) ==
    LET fold(x) == IF x = LongS THEN "s" ELSE Lower(x)
    IN  fold(p) = fold(c)

\* the literal pat matches s at position i, ignoring case
MatchIAt(pat, s, i) ==
    /\ i >= 1
    /\ i + Len(pat) - 1 <= Len(s)
    /\ \A k \in 1..Len(pat) : ReMatchI(pat[k], s[i + k - 1])

\* s[n:] of Python
Drop(s, n) == IF n >= Len(s) THEN <<>> ELSE SubSeq(s, n + 1, Len(s))

\* s[:n] of Python
Take(s, n) == IF n >= Len(s) THEN s ELSE SubSeq(s, 1, n)

\* needle in hay (substring test)
Contains(hay, needle) ==
    \E i \in 1..(Len(hay) - Len(needle) + 1) :
        SubSeq(hay, i, i + Len(needle) - 1) = needle

\* ------------------------------------------------------------------------
\* extract_audio_and_ext: the pure steps
\* ------------------------------------------------------------------------

HrefOpen == <<"h", "r", "e", "f", "=", "\"">>

SoundScheme == <<"s", "o", "u", "n", "d", ":">>

SoundPrefix == SoundScheme \o <<"/", "/">>

AudioExts == { <<"m", "p", "3">>, <<"s", "p", "x">>, <<"w", "a", "v">>, <<"o", "g", "g">> }

\* the pattern href="(sound://[^"]+\.(mp3|spx|wav|ogg))" matched at position
\* i of s: [^"]+ cannot cross a quote, so the closing quote of the pattern
\* is the first quote after the prefix and the extension is the three
\* characters before it
MatchAt(s, i) ==
    LET p == i + Len(HrefOpen) + Len(SoundPrefix)
        qs == {q \in p..Len(s) : s[q] = "\""}
    IN  /\ MatchIAt(HrefOpen \o SoundPrefix, s, i)
        /\ qs # {}
        /\ LET q == CHOOSE x \in qs : \A y \in qs : x <= y
           IN  /\ q - p >= 5
               /\ s[q - 4] = "."
               /\ \E e \in AudioExts : MatchIAt(e, s, q - 3)

\* re.search(pattern, mdx_data, re.IGNORECASE): the leftmost match, with
\* group(1) (the reference) and group(2) (the extension) as written in the
\* text
ReSearch(s) ==
    LET hits == {i \in 1..Len(s) : MatchAt(s, i)}
    IN  IF hits = {}
        THEN [found |-> FALSE, group1 |-> <<>>, group2 |-> <<>>]
        ELSE LET i == CHOOSE x \in hits : \A y \in hits : x <= y
                 p == i + Len(HrefOpen) + Len(SoundPrefix)
                 q == CHOOSE x \in p..Len(s) :
                        s[x] = "\"" /\ \A y \in p..(x - 1) : s[y] # "\""
             IN  [found |-> TRUE,
                  group1 |-> SubSeq(s, i + Len(HrefOpen), q - 1),
                  group2 |-> SubSeq(s, q - 3, q - 1)]

\* the extension as written
ExtOf_AsWritten(m) == m.group2

\* ext = match.group(2).lower()
ExtOf(m) == LowerStr(m.group2)

\* re.sub(r'^sound:(//)?', '', raw_path, flags=re.IGNORECASE)
StripScheme(raw) ==
    IF MatchIAt(SoundScheme, raw, 1)
    THEN IF MatchIAt(<<"/", "/">>, raw, Len(SoundScheme) + 1)
         THEN Drop(raw, Len(SoundScheme) + 2)
         ELSE Drop(raw, Len(SoundScheme))
    ELSE raw

\* str.replace(a, b) for single characters
Replace(s, a, b) == [k \in 1..Len(s) |-> IF s[k] = a THEN b ELSE s[k]]

\* the runs of backslashes left as they are
CollapseBackslashes_Kept(s) == s

RECURSIVE CollapseBackslashes(_)
\* re.sub(r'\\+', r'\\', s): every run of backslashes becomes one backslash
CollapseBackslashes(s) ==
    IF Len(s) <= 1 THEN s
    ELSE IF s[1] = "\\" /\ s[2] = "\\"
         THEN CollapseBackslashes(Tail(s))
         ELSE <<s[1]>> \o CollapseBackslashes(Tail(s))

RECURSIVE LStrip(_, _)
\* str.lstrip(c): all leading c removed
LStrip(s, c) == IF s # <<>> /\ s[1] = c THEN LStrip(Tail(s), c) ELSE s

\* mdd_key of extract_audio_and_ext, from raw_path = match.group(1)
MddKey(raw_path) ==
    LET clean_path == StripScheme(raw_path)
    IN  CollapseBackslashes(<<"\\">> \o Replace(clean_path, "/", "\\"))

\* mdd_key_alt = mdd_key.lstrip("\\")
MddKeyAlt(mdd_key) == LStrip(mdd_key, "\\")

\* ------------------------------------------------------------------------
\* get_api_key and get_word_audio: the pure steps
\* ------------------------------------------------------------------------

\* number of characters of a credential shown in a log line
HintLen == 4

\* the query parameter consulted first
Token_QueryFirst(header, query) == IF Truthy(query) THEN query ELSE header

\* token = header_key or query_key
Token(header, query) == IF Truthy(header) THEN header ELSE query

\* the comparison alone, without the test for a missing token
AuthFails_CompareOnly(tok, expected) == tok # expected

\* if not token or token != api_key
AuthFails(tok, expected) == ~Truthy(tok) \/ tok # expected

\* repr() of an Optional[str] without characters that need escaping
Repr(o) == IF o.none THEN <<"None">> ELSE <<"'">> \o o.s \o <<"'">>

\* hint = token[:4] + "..." if token and len(token) > 4 else repr(token)
Hint(tok) ==
    IF Truthy(tok) /\ Len(tok.s) > HintLen
    THEN Take(tok.s, HintLen) \o <<"...">>
    ELSE Repr(tok)

\* the line printed by get_api_key on failure
AuthFailureLine(tok, expected) ==
    <<"AUTH FAILURE: Received token hint '">> \o Hint(tok)
        \o <<"', expected key starting with '">>
        \o (IF Truthy(expected) THEN Take(expected.s, HintLen) ELSE <<"None">>)
        \o <<"...'">>

\* the line printed by lifespan once API_KEY is found
StartupLine(expected) ==
    <<"STARTUP: API_KEY loaded successfully (starts with: '">>
        \o Take(expected.s, HintLen) \o <<"...')">>

\* mime_types.get(ext, 'application/octet-stream')
MimeType(e) ==
    CASE e = <<"m", "p", "3">> -> "audio/mpeg"
      [] e = <<"s", "p", "x">> -> "audio/speex"
      [] e = <<"w", "a", "v">> -> "audio/wav"
      [] e = <<"o", "g", "g">> -> "audio/ogg"
      [] OTHER -> "application/octet-stream"

\* ------------------------------------------------------------------------
\* RedactKeyFilter
\* ------------------------------------------------------------------------

KeyParam == <<"k", "e", "y", "=">>

\* characters that end the run [^\s"]+
RunStop == {" ", "\""}

RECURSIVE SkipRun(_)
\* s without its leading run of [^\s"] characters
SkipRun(s) == IF s # <<>> /\ s[1] \notin RunStop THEN SkipRun(Tail(s)) ELSE s

RECURSIVE Redact(_)
\* re.sub(r'(\?key=)[^\s"]+', r'\1[REDACTED]', arg)
Redact(s) ==
    IF s = <<>> THEN <<>>
    ELSE IF /\ Take(s, 5) = <<"?">> \o KeyParam
            /\ Len(s) >= 6
            /\ s[6] \notin RunStop
         THEN <<"?">> \o KeyParam \o <<"[REDACTED]">> \o Redact(SkipRun(Drop(s, 5)))
         ELSE <<s[1]>> \o Redact(Tail(s))

\* the request target as the access log receives it: the path and the query
\* string with the key parameter alone, first of two, or after another one
FullPath(w, query, pos) ==
    <<"/audio/">> \o w \o
        (IF query.none THEN <<>>
         ELSE <<"?">>
              \o (IF pos = "later" THEN <<"v", "=", "1", "&">> ELSE <<>>)
              \o KeyParam \o query.s
              \o (IF pos = "first" THEN <<"&", "v", "=", "1">> ELSE <<>>))

\* the access line: the filter rewrites every str argument of the record
AccessLine(w, query, pos, status) ==
    <<"client - \"GET ">> \o Redact(FullPath(w, query, pos))
        \o <<" HTTP/1.1\" ", status>>

\* ------------------------------------------------------------------------
\* Inputs
\* ------------------------------------------------------------------------

MDX_PATH == "/app/dict/Vocabulary Webster Longman Dict.mdx"

MDD_PATH == "/app/dict/Vocabulary Webster Longman Dict.mdd"

\* a secret longer than the hint and one that is not
LongSecret == <<"s", "3", "c", "r", "3", "t">>

ShortSecret == <<"a", "b", "c">>

\* wrong credentials: one sharing the hint with LongSecret, one short
LongWrong == <<"s", "3", "c", "r", "3", "x">>

ShortWrong == <<"a", "b">>

\* values of the API_KEY environment variable (None: not set)
EnvValues == {None, Some(LongSecret), Some(ShortSecret)}

\* values of the X-API-Key header (None: no header) and of ?key=
HeaderValues == {None, Some(<<>>), Some(LongSecret), Some(ShortSecret), Some(LongWrong)}

QueryValues == {None, Some(<<>>), Some(LongSecret), Some(ShortSecret), Some(ShortWrong)}

KeyPositions == {"only", "first", "later"}

Words == { <<"a", "p", "p", "l", "e">>, <<"A", "p", "p", "l", "e">> }

RECURSIVE SeqsUpTo(_, _)
\* the sequences over S of length at most n
SeqsUpTo(S, n) ==
    IF n = 0 THEN {<<>>}
    ELSE LET shorter == SeqsUpTo(S, n - 1)
         IN  shorter \cup {Append(t, c) : t \in shorter, c \in S}

PathChars == {"b", "/", "\\"}

\* extensions as written in a reference: the four in several cases, the
\* long-s spelling, and one that is not audio
ExtForms ==
    { <<"m", "p", "3">>, <<"M", "P", "3">>, <<"s", "p", "x">>, <<LongS, "p", "x">>,
      <<"w", "a", "v">>, <<"O", "g", "g">>, <<"t", "x", "t">> }

AppleRef ==
    <<"s", "o", "u", "n", "d", ":", "/", "/", "v", "o", "c", "/", "D", "/",
      "a", "p", "p", "l", "e", ".", "m", "p", "3">>

ApplePayload == <<"<", "a", " ">> \o HrefOpen \o AppleRef \o <<"\"", ">">>

UpperPrefix == <<"S", "O", "U", "N", "D", ":", "/", "/">>

\* text payloads: one reference for every path and extension form, the
\* scheme in upper case for every path, and a few hand-written ones (plain
\* text, a non-audio link before an audio link, a reference inside markup)
Payloads ==
    { HrefOpen \o SoundPrefix \o pa \o <<".">> \o ex \o <<"\"">> :
        pa \in SeqsUpTo(PathChars, MaxPathLen), ex \in ExtForms }
    \cup { <<"H", "R", "E", "F", "=", "\"">> \o UpperPrefix \o pa \o <<".", "m", "p", "3", "\"">> :
        pa \in SeqsUpTo(PathChars, MaxPathLen) }
    \cup { ApplePayload,
           <<"n", "o", " ", "l", "i", "n", "k">>,
           HrefOpen \o SoundPrefix \o <<"b", ".", "t", "x", "t", "\"", " ">>
               \o HrefOpen \o SoundPrefix \o <<"b", ".", "w", "a", "v", "\"">> }

\* what the text archive may return: nothing, one record, or two records
TextResults ==
    {<<>>} \cup {<<p>> : p \in Payloads}
           \cup {<<p, ApplePayload>> : p \in {<<"n", "o", " ", "l", "i", "n", "k">>,
                                              HrefOpen \o SoundPrefix \o <<"b", ".", "O", "G", "G", "\"">>}}

\* what the binary archive may return: nothing, one record (possibly with an
\* empty payload), or two records
BinResults == { <<>>, << <<"x01">> >>, << <<>> >>, << <<"x02", "x03">>, <<"x01">> >> }

\* ------------------------------------------------------------------------
\* State
\* ------------------------------------------------------------------------

VARIABLES
    env_API_KEY,    \* os.getenv("API_KEY"): the process configuration
    files,          \* the archive files that exist on disk
    querier_mdx,    \* module global: None or the text engine
    querier_mdd,    \* module global: None or the binary engine
    pc,             \* where the process / the request in flight stands
    header_key,     \* the request: X-API-Key
    query_key,      \* the request: ?key=
    key_pos,        \* the request: where key= stands in the query string
    word,           \* the request: /audio/{word}
    api_key,        \* local of lifespan and of get_api_key
    token,          \* local of get_api_key
    match,          \* local of extract_audio_and_ext
    mdd_key,        \* local of extract_audio_and_ext
    audio_bytes,    \* local of get_word_audio
    ext,            \* local of get_word_audio
    queries,        \* the archive queries made for the request in flight
    response,       \* the response of the request in flight
    log             \* the lines logged at startup / for the request in flight

vars ==
    <<env_API_KEY, files, querier_mdx, querier_mdd, pc, header_key, query_key,
      key_pos, word, api_key, token, match, mdd_key, audio_bytes, ext,
      queries, response, log>>

NoMatch == [found |-> FALSE, group1 |-> <<>>, group2 |-> <<>>]

NoResponse == [status |-> "none", content |-> <<>>, media_type |-> "none"]

HTTPException(status) == [status |-> status, content |-> <<>>, media_type |-> "application/json"]

Response(content, media_type) == [status |-> "200", content |-> content, media_type |-> media_type]

Query(archive, key, ignore_case, result) ==
    [archive |-> archive, key |-> key, ignore_case |-> ignore_case, result |-> result]

\* module load: both handles None, nothing served yet
Init ==
    /\ env_API_KEY \in EnvValues
    /\ files \in SUBSET {MDX_PATH, MDD_PATH}
    /\ querier_mdx = "None"
    /\ querier_mdd = "None"
    /\ pc = "boot"
    /\ header_key = None
    /\ query_key = None
    /\ key_pos = "only"
    /\ word = <<>>
    /\ api_key = None
    /\ token = None
    /\ match = NoMatch
    /\ mdd_key = <<>>
    /\ audio_bytes = None
    /\ ext = None
    /\ queries = <<>>
    /\ response = NoResponse
    /\ log = <<>>

request_vars == <<header_key, query_key, key_pos, word>>

extract_vars == <<match, mdd_key, audio_bytes, ext>>

engine_vars == <<files, querier_mdx, querier_mdd>>

\* ------------------------------------------------------------------------
\* Actions
\* ------------------------------------------------------------------------

\* lifespan with the engines created as soon as one of the files exists
Lifespan_EitherFile ==
    /\ pc = "boot"
    /\ api_key' = env_API_KEY
    /\ IF ~Truthy(env_API_KEY)
       THEN /\ pc' = "halted"
            /\ UNCHANGED <<querier_mdx, querier_mdd, log>>
       ELSE /\ pc' = "idle"
            /\ IF MDX_PATH \in files \/ MDD_PATH \in files
               THEN /\ querier_mdx' = "Querier(text)"
                    /\ querier_mdd' = "Querier(audio)"
                    /\ log' = <<StartupLine(env_API_KEY)>>
               ELSE /\ UNCHANGED <<querier_mdx, querier_mdd>>
                    /\ log' = <<StartupLine(env_API_KEY)>>
    /\ UNCHANGED <<env_API_KEY, files, request_vars, token, extract_vars, queries, response>>

\* lifespan, up to the yield
Lifespan ==
    /\ pc = "boot"
    /\ api_key' = env_API_KEY
    /\ IF ~Truthy(env_API_KEY)
       THEN /\ pc' = "halted"
            /\ UNCHANGED <<querier_mdx, querier_mdd, log>>
       ELSE /\ pc' = "idle"
            /\ IF MDX_PATH \in files /\ MDD_PATH \in files
               THEN /\ querier_mdx' = "Querier(text)"
                    /\ querier_mdd' = "Querier(audio)"
                    /\ log' = <<StartupLine(env_API_KEY),
                                <<"LOADING DICTIONARY: ", MDX_PATH>>,
                                <<"STARTUP: Dictionary engines initialized successfully.">>>>
               ELSE /\ UNCHANGED <<querier_mdx, querier_mdd>>
                    /\ log' = <<StartupLine(env_API_KEY),
                                <<"CRITICAL: Dictionary files missing in /app/dict/">>>>
    /\ UNCHANGED <<env_API_KEY, files, request_vars, token, extract_vars, queries, response>>

\* the process configuration changes between two requests
SetEnv(v) ==
    /\ pc = "idle"
    /\ v # env_API_KEY
    /\ env_API_KEY' = v
    /\ UNCHANGED <<engine_vars, pc, request_vars, api_key, token, extract_vars,
                   queries, response, log>>

\* a request GET /audio/{w} arrives
Receive(h, q, pos, w) ==
    /\ pc = "idle"
    /\ q.none => pos = "only"
    /\ header_key' = h
    /\ query_key' = q
    /\ key_pos' = pos
    /\ word' = w
    /\ log' = <<>>
    /\ pc' = "auth"
    /\ UNCHANGED <<env_API_KEY, engine_vars, api_key, token, extract_vars,
                   queries, response>>

\* get_api_key, the dependency of the endpoint
GetApiKey ==
    /\ pc = "auth"
    /\ api_key' = env_API_KEY
    /\ token' = Token(header_key, query_key)
    /\ IF AuthFails(token', api_key')
       THEN /\ log' = Append(log, AuthFailureLine(token', api_key'))
            /\ response' = HTTPException("403")
            /\ pc' = "access"
       ELSE /\ pc' = "handler"
            /\ UNCHANGED <<log, response>>
    /\ UNCHANGED <<env_API_KEY, engine_vars, request_vars, extract_vars, queries>>

\* get_word_audio: the engines check
GetWordAudio ==
    /\ pc = "handler"
    /\ IF querier_mdx = "None" \/ querier_mdd = "None"
       THEN /\ response' = HTTPException("500")
            /\ pc' = "access"
       ELSE /\ pc' = "mdx"
            /\ UNCHANGED response
    /\ UNCHANGED <<env_API_KEY, engine_vars, request_vars, api_key, token,
                   extract_vars, queries, log>>

\* extract_audio_and_ext, steps 1 to 3: the text query, the pattern, the key
QueryMdx(records) ==
    /\ pc = "mdx"
    /\ queries' = Append(queries, Query("mdx", word, TRUE, records))
    /\ IF records = <<>>
       THEN /\ log' = Append(log, <<"NOT FOUND: Word '">> \o word \o <<"' not in MDX.">>)
            /\ pc' = "respond"
            /\ UNCHANGED <<match, mdd_key>>
       ELSE LET mdx_data == records[1]
                m == ReSearch(mdx_data)
            IN  IF ~m.found
                THEN /\ log' = Append(log, <<"PARSE ERROR: No audio link in HTML for '">>
                                              \o word \o <<"'. Content: ">>
                                              \o Repr(Some(mdx_data)))
                     /\ pc' = "respond"
                     /\ UNCHANGED <<match, mdd_key>>
                ELSE /\ match' = m
                     /\ mdd_key' = MddKey(m.group1)
                     /\ log' = Append(log, <<"MDD LOOKUP: Word='">> \o word
                                              \o <<"' -> Searching Key=">>
                                              \o Repr(Some(mdd_key')))
                     /\ pc' = "mdd"
    /\ UNCHANGED <<env_API_KEY, engine_vars, request_vars, api_key, token,
                   audio_bytes, ext, response>>

\* the binary query with the primary key, retried whatever it returned
QueryMdd_AlwaysRetry(audio_records) ==
    /\ pc = "mdd"
    /\ queries' = Append(queries, Query("mdd", mdd_key, FALSE, audio_records))
    /\ pc' = "mdd_alt"
    /\ UNCHANGED <<env_API_KEY, engine_vars, request_vars, api_key, token,
                   match, mdd_key, audio_bytes, ext, response, log>>

\* extract_audio_and_ext, step 4: the binary query with the primary key
QueryMdd(audio_records) ==
    /\ pc = "mdd"
    /\ queries' = Append(queries, Query("mdd", mdd_key, FALSE, audio_records))
    /\ IF audio_records = <<>>
       THEN /\ pc' = "mdd_alt"
            /\ UNCHANGED <<audio_bytes, ext>>
       ELSE /\ audio_bytes' = Some(audio_records[1])
            /\ ext' = Some(ExtOf(match))
            /\ pc' = "respond"
    /\ UNCHANGED <<env_API_KEY, engine_vars, request_vars, api_key, token,
                   match, mdd_key, response, log>>

\* extract_audio_and_ext: the retry without the leading backslash
QueryMddAlt(audio_records) ==
    /\ pc = "mdd_alt"
    /\ LET mdd_key_alt == MddKeyAlt(mdd_key)
       IN  /\ queries' = Append(queries, Query("mdd", mdd_key_alt, FALSE, audio_records))
           /\ IF audio_records = <<>>
              THEN /\ log' = log \o << <<"MDD FALLBACK: Retrying with key=">>
                                          \o Repr(Some(mdd_key_alt)),
                                       <<"MDD FAILURE: Key '">> \o mdd_key
                                          \o <<"' not found in .mdd file.">> >>
                   /\ UNCHANGED <<audio_bytes, ext>>
              ELSE /\ log' = Append(log, <<"MDD FALLBACK: Retrying with key=">>
                                            \o Repr(Some(mdd_key_alt)))
                   /\ audio_bytes' = Some(audio_records[1])
                   /\ ext' = Some(ExtOf(match))
    /\ pc' = "respond"
    /\ UNCHANGED <<env_API_KEY, engine_vars, request_vars, api_key, token,
                   match, mdd_key, response>>

\* get_word_audio answering a miss with the status of the engines check
Respond_Status500 ==
    /\ pc = "respond"
    /\ response' = IF ~Truthy(audio_bytes) \/ ~Truthy(ext)
                   THEN HTTPException("500")
                   ELSE Response(audio_bytes.s, MimeType(ext.s))
    /\ pc' = "access"
    /\ UNCHANGED <<env_API_KEY, engine_vars, request_vars, api_key, token,
                   extract_vars, queries, log>>

\* get_word_audio, after the extractor returned
Respond ==
    /\ pc = "respond"
    /\ response' = IF ~Truthy(audio_bytes) \/ ~Truthy(ext)
                   THEN HTTPException("404")
                   ELSE Response(audio_bytes.s, MimeType(ext.s))
    /\ pc' = "access"
    /\ UNCHANGED <<env_API_KEY, engine_vars, request_vars, api_key, token,
                   extract_vars, queries, log>>

\* the access logger emits the line of the finished request through
\* RedactKeyFilter
AccessLog ==
    /\ pc = "access"
    /\ log' = Append(log, AccessLine(word, query_key, key_pos, response.status))
    /\ pc' = "done"
    /\ UNCHANGED <<env_API_KEY, engine_vars, request_vars, api_key, token,
                   extract_vars, queries, response>>

\* the request is over: its request-scoped values are gone
Close ==
    /\ pc = "done"
    /\ header_key' = None
    /\ query_key' = None
    /\ key_pos' = "only"
    /\ word' = <<>>
    /\ api_key' = None
    /\ token' = None
    /\ match' = NoMatch
    /\ mdd_key' = <<>>
    /\ audio_bytes' = None
    /\ ext' = None
    /\ queries' = <<>>
    /\ response' = NoResponse
    /\ log' = <<>>
    /\ pc' = "idle"
    /\ UNCHANGED <<env_API_KEY, engine_vars>>

Next ==
    \/ Lifespan
    \/ \E v \in EnvValues : SetEnv(v)
    \/ \E h \in HeaderValues, q \in QueryValues, pos \in KeyPositions, w \in Words :
          Receive(h, q, pos, w)
    \/ GetApiKey
    \/ GetWordAudio
    \/ \E records \in TextResults : QueryMdx(records)
    \/ \E audio_records \in BinResults : QueryMdd(audio_records)
    \/ \E audio_records \in BinResults : QueryMddAlt(audio_records)
    \/ Respond
    \/ AccessLog
    \/ Close

Spec == Init /\ [][Next]_vars

\* ------------------------------------------------------------------------
\* Vocabulary of the properties
\* ------------------------------------------------------------------------

\* the request in flight has its response
Answered == pc \in {"access", "done"}

\* the request in flight went through the key guard
Guarded == pc \in {"handler", "mdx", "mdd", "mdd_alt", "respond", "access", "done"}

\* the key guard let the request in flight through
Authorised == Guarded /\ Truthy(token) /\ token = api_key

EnginesReady == querier_mdx # "None" /\ querier_mdd # "None"

\* a credential is present when it was sent and is not empty
Present(o) == ~o.none /\ Len(o.s) > 0

\* the text holds href="sound://X.E" with X not empty and without a quote
\* and E one of mp3, spx, wav, ogg in any letter case
HasAudioRef(s) ==
    \E i \in 1..Len(s) :
        /\ MatchIAt(HrefOpen \o SoundPrefix, s, i)
        /\ \E q \in (i + Len(HrefOpen) + Len(SoundPrefix) + 5)..Len(s) :
              /\ s[q] = "\""
              /\ \A k \in (i + Len(HrefOpen) + Len(SoundPrefix))..(q - 1) : s[k] # "\""
              /\ s[q - 4] = "."
              /\ \E e \in AudioExts : MatchIAt(e, s, q - 3)

RECURSIVE Segments(_)
\* the non-empty pieces of s between separators (/ or \)
Segments(s) ==
    LET seps == {k \in 1..Len(s) : s[k] \in {"/", "\\"}}
    IN  IF seps = {}
        THEN IF s = <<>> THEN <<>> ELSE <<s>>
        ELSE LET k == CHOOSE x \in seps : \A y \in seps : x <= y
                 rest == Segments(Drop(s, k))
             IN  IF k = 1 THEN rest ELSE <<SubSeq(s, 1, k - 1)>> \o rest

NoDoubleBackslash(s) == \A k \in 1..(Len(s) - 1) : ~(s[k] = "\\" /\ s[k + 1] = "\\")

NoUpperCase(s) == \A k \in 1..Len(s) : \A i \in 1..Len(UpperChars) : s[k] # UpperChars[i]

\* the last three characters
Last3(s) == SubSeq(s, Len(s) - 2, Len(s))

AppleKey ==
    <<"\\", "v", "o", "c", "\\", "D", "\\", "a", "p", "p", "l", "e", ".", "m", "p", "3">>

\* ------------------------------------------------------------------------
\* Properties
\* ------------------------------------------------------------------------

\* the credential the guard judges: the header if present, otherwise the
\* query parameter
Chosen == IF Present(header_key) THEN header_key ELSE query_key

\* the request in flight must be rejected: no credential is present, or the
\* chosen one is not the secret the configuration holds during the request
MustReject ==
    \/ ~Present(header_key) /\ ~Present(query_key)
    \/ Chosen # env_API_KEY

\* C1: a request whose credentials are both absent, or whose chosen
\* credential (the header if present, otherwise the query parameter) is not
\* exactly the secret configured at the time of the request, never gets past
\* the guard: it is answered 403 whatever the engines are, and no archive
\* query is made for it; a request with the correct secret in the header
\* alone, or in the query parameter alone, is not answered 403.
C1_KeyGuard ==
    /\ (Guarded /\ MustReject) =>
          /\ Answered
          /\ response.status = "403"
          /\ queries = <<>>
    /\ (Answered /\ Present(header_key) /\ ~Present(query_key)
           /\ header_key = env_API_KEY) => response.status # "403"
    /\ (Answered /\ ~Present(header_key) /\ Present(query_key)
           /\ query_key = env_API_KEY) => response.status # "403"
    /\ (Answered /\ response.status = "403") => MustReject

\* a request rejected while the engines are initialised: its header carries
\* a secret the configuration does not hold at the time of the request
C1_Witness ==
    /\ pc = "done"
    /\ EnginesReady
    /\ header_key = Some(LongSecret)
    /\ env_API_KEY = Some(ShortSecret)
    /\ response.status = "403"
    /\ queries = <<>>

\* a request let through on the query parameter alone
C1_WitnessQueryPasses ==
    /\ pc = "done"
    /\ header_key = None
    /\ query_key = env_API_KEY
    /\ response.status = "200"

\* C2 as stated: with a header credential and a query credential both sent,
\* every header value that is not the secret, of any length, gets 403 even
\* when the query credential is the secret.
C2_HeaderWinsAnyLength ==
    (Answered /\ ~header_key.none /\ ~query_key.none
        /\ header_key # env_API_KEY /\ query_key = env_API_KEY)
    => response.status = "403"

\* C2 amended: with a non-empty header credential that is not the secret and
\* a query credential that is the secret, the request gets 403.
C2_HeaderWins ==
    (Answered /\ Present(header_key) /\ ~query_key.none
        /\ header_key # env_API_KEY /\ query_key = env_API_KEY)
    => response.status = "403"

\* a wrong header with the right query parameter, rejected
C2_Witness ==
    /\ pc = "done"
    /\ header_key = Some(LongWrong)
    /\ query_key = Some(LongSecret)
    /\ env_API_KEY = Some(LongSecret)
    /\ response.status = "403"

\* the request in flight was authorised, found the engines and its binary
\* lookup found nothing under the primary key and something under the key
\* without its leading backslash
FallbackFound ==
    /\ Authorised
    /\ EnginesReady
    /\ Len(queries) = 3
    /\ queries[2].result = <<>>
    /\ queries[3].result # <<>>

\* C3: when the binary archive has no record for the primary key and at
\* least one for the key without its leading backslash, the response is 200
\* and its body is the payload of the first record returned for the second
\* key, whatever those bytes are.
C3_FallbackPath ==
    (Answered /\ FallbackFound) =>
        /\ response.status = "200"
        /\ response.content = queries[3].result[1]

\* the text lookup of the request in flight found no word, no reference, or
\* its binary lookups found no record
NoWord == Len(queries) >= 1 /\ queries[1].result = <<>>

NoReference ==
    /\ Len(queries) >= 1
    /\ queries[1].result # <<>>
    /\ ~HasAudioRef(queries[1].result[1])

NoRecord ==
    /\ Len(queries) = 3
    /\ queries[2].result = <<>>
    /\ queries[3].result = <<>>

\* C4: an authorised request with both engines initialised is answered 404,
\* never 200, when the text archive returns no record for the word, when
\* the first text record holds no href="sound://..." reference ending in
\* mp3, spx, wav or ogg, and when the binary archive returns no record for
\* the primary key and none for the key without its leading backslash.
C4_NotFound ==
    /\ (Authorised /\ EnginesReady /\ (NoWord \/ NoReference)) =>
          /\ Len(queries) = 1
          /\ pc \in {"respond", "access", "done"}
          /\ Answered => response.status = "404"
    /\ (Authorised /\ EnginesReady /\ NoRecord) =>
          /\ pc \in {"respond", "access", "done"}
          /\ Answered => response.status = "404"

\* 404 after both binary lookups came back empty
C4_Witness ==
    /\ pc = "done"
    /\ Authorised
    /\ NoRecord
    /\ response.status = "404"

\* 404 for a word the text archive does not hold
C4_WitnessNoWord == pc = "done" /\ Authorised /\ NoWord /\ response.status = "404"

\* 404 for a text record without an audio reference
C4_WitnessNoReference ==
    pc = "done" /\ Authorised /\ NoReference /\ response.status = "404"

BothFiles == MDX_PATH \in files /\ MDD_PATH \in files

\* after startup the handles are set exactly when both files exist, and
\* startup only aborts for a missing API_KEY
HandlesFollowFiles ==
    /\ pc = "boot" => querier_mdx = "None" /\ querier_mdd = "None"
    /\ pc = "halted" => ~Truthy(api_key) /\ querier_mdx = "None" /\ querier_mdd = "None"
    /\ pc \notin {"boot", "halted"} =>
          IF BothFiles
          THEN querier_mdx = "Querier(text)" /\ querier_mdd = "Querier(audio)"
          ELSE querier_mdx = "None" /\ querier_mdd = "None"

\* an authorised request that finds a handle unset is answered 500 without
\* any archive query
UnsetMeans500 ==
    (Authorised /\ ~EnginesReady /\ pc # "handler") =>
        /\ Answered
        /\ response.status = "500"
        /\ queries = <<>>

\* C5: startup sets the two engine handles only when both archive files
\* exist and otherwise leaves both unset without aborting; no step after
\* startup changes a handle; every authorised request that arrives while a
\* handle is unset is answered 500 and makes no archive query.
C5_NotInitialized ==
    /\ [](HandlesFollowFiles /\ UnsetMeans500)
    /\ [][pc # "boot" => UNCHANGED <<querier_mdx, querier_mdd>>]_vars

\* an authorised request answered 500 by a process that started with one
\* of the two files missing
C5_Witness ==
    /\ pc = "done"
    /\ Authorised
    /\ files = {MDX_PATH}
    /\ querier_mdx = "None"
    /\ response.status = "500"
    /\ queries = <<>>

\* C6: for every matched reference the primary key is the reference without
\* sound:// with every / turned into \, one \ in front and every run of \
\* collapsed: it starts with exactly one \, holds no /, never holds two \
\* in a row, and its pieces between separators are those of the reference
\* (sound://voc/D/apple.mp3 gives \voc\D\apple.mp3); it is the key of the
\* first binary query.  The key of the second binary query is the primary
\* key without its leading \ and holds no two \ in a row either.
C6_KeyNormalisation ==
    match.found =>
        /\ Len(mdd_key) >= 2
        /\ mdd_key[1] = "\\"
        /\ mdd_key[2] # "\\"
        /\ mdd_key[Len(mdd_key)] # "\\"
        /\ \A k \in 1..Len(mdd_key) : mdd_key[k] # "/"
        /\ NoDoubleBackslash(mdd_key)
        /\ Segments(mdd_key) = Segments(Drop(match.group1, Len(SoundPrefix)))
        /\ match.group1 = AppleRef => mdd_key = AppleKey
        /\ Len(queries) >= 2 => queries[2].key = mdd_key
        /\ Len(queries) = 3 =>
              /\ queries[3].key = Tail(mdd_key)
              /\ queries[3].key[1] # "\\"
              /\ NoDoubleBackslash(queries[3].key)

\* the reference of the example, looked up under both keys
C6_Witness ==
    /\ pc = "done"
    /\ match.group1 = AppleRef
    /\ Len(queries) = 3
    /\ queries[2].key = AppleKey
    /\ queries[3].key = Tail(AppleKey)

\* a reference whose path mixes / and \ in a row, looked up under both keys
C6_WitnessRun ==
    /\ pc = "done"
    /\ match.found
    /\ Contains(match.group1, <<":", "/", "/", "/", "\\", ".">>)
    /\ Len(queries) = 3

\* C7 as stated: the matched extension, in whatever letter case it was
\* written, is lowercased in the value used for the MIME mapping and where
\* it appears in the keys sent to the binary archive.
C7_ExtLowerEverywhere ==
    /\ ~ext.none => NoUpperCase(ext.s)
    /\ \A i \in 2..Len(queries) : NoUpperCase(Last3(queries[i].key))

\* C7 amended: the matched extension is lowercased in the value used for the
\* MIME mapping; in the keys sent to the binary archive (primary and
\* fallback) it appears in the letter case of the reference.
C7_ExtLower ==
    /\ ~ext.none =>
          /\ NoUpperCase(ext.s)
          /\ ext.s = LowerStr(match.group2)
          /\ \A k \in 1..3 : ReMatchI(ext.s[k], match.group2[k])
    /\ (Answered /\ response.status = "200") =>
          response.media_type = MimeType(LowerStr(match.group2))
    /\ match.found => Last3(mdd_key) = match.group2
    /\ \A i \in 2..Len(queries) : Last3(queries[i].key) = match.group2

\* a reference written with MP3, served as audio/mpeg after a lookup under
\* both keys
C7_Witness ==
    /\ pc = "done"
    /\ match.group2 = <<"M", "P", "3">>
    /\ ext = Some(<<"m", "p", "3">>)
    /\ Len(queries) = 3
    /\ Last3(queries[3].key) = <<"M", "P", "3">>
    /\ response.status = "200"
    /\ response.media_type = "audio/mpeg"

\* C8: no logged line holds the full expected secret (the value of API_KEY
\* read by the function that logs), whatever the lengths of secret and
\* token; and the access line of a request with key=<credential> in its
\* query string does not hold the credential, wherever key= stands.
C8_NoSecretInLog ==
    /\ Truthy(api_key) => \A i \in 1..Len(log) : ~Contains(log[i], api_key.s)
    /\ (pc = "done" /\ Present(query_key)) => ~Contains(log[Len(log)], query_key.s)

MimeTable == {"audio/mpeg", "audio/speex", "audio/wav", "audio/ogg"}

\* C9: every 200 response carries the Content-Type of the table for the
\* lowercased matched extension, and never application/octet-stream.
C9_MimeMapping ==
    (Answered /\ response.status = "200") =>
        /\ response.media_type = MimeType(LowerStr(match.group2))
        /\ response.media_type \in MimeTable
        /\ response.media_type # "application/octet-stream"

\* the archive queries of the request in flight are in order: one text
\* query, then the primary and then the fallback binary query
QueryOrder ==
    /\ Len(queries) <= 3
    /\ \A i \in 1..Len(queries) :
          IF i = 1
          THEN /\ queries[i].archive = "mdx"
               /\ queries[i].key = word
               /\ queries[i].ignore_case
          ELSE /\ queries[i].archive = "mdd"
               /\ ~queries[i].ignore_case
    /\ Len(queries) >= 2 =>
          /\ queries[1].result # <<>>
          /\ HasAudioRef(queries[1].result[1])
          /\ queries[2].key[1] = "\\"
          /\ Contains(queries[1].result[1], Drop(match.group1, Len(SoundPrefix)))
    /\ Len(queries) = 3 =>
          /\ queries[2].result = <<>>
          /\ queries[3].key = Tail(queries[2].key)

\* once the extractor has returned, the queries made are exactly those the
\* results call for
QueriesComplete ==
    (pc \in {"respond", "access", "done"} /\ Authorised /\ EnginesReady) =>
        /\ Len(queries) >= 1
        /\ (queries[1].result # <<>> /\ HasAudioRef(queries[1].result[1]))
              => Len(queries) >= 2
        /\ (Len(queries) = 2) => queries[2].result # <<>>
        /\ (Answered /\ response.status = "200") =>
              response.content = queries[Len(queries)].result[1]

\* C10: one resolve queries the text archive exactly once, ignoring case,
\* and reads its first record only; it queries the binary archive only after
\* a reference was matched, with the primary key and then, if and only if
\* that returned no record, once with the key without its leading backslash;
\* both binary queries are case-sensitive; there are at most one text and
\* two binary queries and nothing is retried.
C10_QuerySequence ==
    /\ [](QueryOrder /\ QueriesComplete)
    /\ [][Len(queries') <= Len(queries) + 1
           /\ (Len(queries') > Len(queries) => SubSeq(queries', 1, Len(queries)) = queries)]_vars

\* a text query with two records followed by both binary queries
C10_Witness ==
    /\ pc = "done"
    /\ Len(queries) = 3
    /\ Len(queries[1].result) = 2
    /\ queries[2].result = <<>>
    /\ Len(queries[3].result) = 2
    /\ response.status = "200"

====
